---- MODULE Spec2Model ----
(***************************************************************************)
(* Model of n8n-setup-scripts/import-to-db.py: the batch importer that     *)
(* loads every *-workflow.json file of the n8n-workflows directory and     *)
(* inserts one row per file into the workflow table of the n8n database.   *)
(*                                                                         *)
(* The program is sequential; its position is pc.  The steps are cut at    *)
(* the calls that touch the file system or the database, where the         *)
(* environment (a failing sqlite call, the database file being removed,    *)
(* the process being killed, the garbage collector) can interleave.        *)
(***************************************************************************)
EXTENDS Integers, Sequences, FiniteSets

\* ------------------------------------------------------------------ bounds
\* Directory slots: file names are 1..MaxFiles, in lexicographic order.
MaxFiles == 2
\* Number of times the importer is run against the same directory.
MaxRuns == 2
\* Environment faults per behaviour (failing connect/execute/commit, removal
\* of the database file).
MaxFaults == 1

\* ------------------------------------------------------------- JSON values
\* A JSON value as json.load returns it.  Every value is a record with the
\* same fields so that values of different types can be compared.
JNull == [t |-> "null", b |-> FALSE, n |-> 0, s |-> "", a |-> <<>>, o |-> <<>>]
JBool(b) == [t |-> "bool", b |-> b, n |-> 0, s |-> "", a |-> <<>>, o |-> <<>>]
JNum(n) == [t |-> "num", b |-> FALSE, n |-> n, s |-> "", a |-> <<>>, o |-> <<>>]
JStr(s) == [t |-> "str", b |-> FALSE, n |-> 0, s |-> s, a |-> <<>>, o |-> <<>>]
\* a: the sequence of the array's elements
JArr(a) == [t |-> "arr", b |-> FALSE, n |-> 0, s |-> "", a |-> a, o |-> <<>>]
\* o: the object's items, a sequence of [k |-> key, v |-> value], keys distinct
JObj(o) == [t |-> "obj", b |-> FALSE, n |-> 0, s |-> "", a |-> <<>>, o |-> o]
Item(k, v) == [k |-> k, v |-> v]

\* dict.get(key, default): the value stored under key, else the default.
\* Only called on a mapping; see IsMapping.
Get(d, key, default) ==
    IF \E i \in 1..Len(d.o) : d.o[i].k = key
    THEN d.o[CHOOSE i \in 1..Len(d.o) : d.o[i].k = key].v
    ELSE default

\* Whether v has a get method (json.load returns a dict only for an object).
IsMapping(v) == v.t = "obj"

\* Python truthiness of a JSON value, as tested by "1 if active else 0".
Truthy(v) ==
    CASE v.t = "null" -> FALSE
      [] v.t = "bool" -> v.b
      [] v.t = "num" -> v.n # 0
      [] v.t = "str" -> v.s # ""
      [] v.t = "arr" -> v.a # <<>>
      [] v.t = "obj" -> v.o # <<>>

Digit(d) == <<"0", "1", "2", "3", "4", "5", "6", "7", "8", "9">>[d + 1]

RECURSIVE IntStr(_)
IntStr(n) ==
    IF n < 0 THEN "-" \o IntStr(0 - n)
    ELSE IF n < 10 THEN Digit(n)
    ELSE IntStr(n \div 10) \o Digit(n % 10)

\* json.dumps with the default separators (", " and ": ").  The strings of
\* the model hold no character that json.dumps escapes.
RECURSIVE Dumps(_), DumpItems(_), DumpPairs(_)
Dumps(v) ==
    CASE v.t = "null" -> "null"
      [] v.t = "bool" -> (IF v.b THEN "true" ELSE "false")
      [] v.t = "num" -> IntStr(v.n)
      [] v.t = "str" -> "\"" \o v.s \o "\""
      [] v.t = "arr" -> "[" \o DumpItems(v.a) \o "]"
      [] v.t = "obj" -> "{" \o DumpPairs(v.o) \o "}"
DumpItems(a) ==
    IF a = <<>> THEN ""
    ELSE IF Len(a) = 1 THEN Dumps(a[1])
    ELSE Dumps(a[1]) \o ", " \o DumpItems(Tail(a))
DumpPairs(o) ==
    IF o = <<>> THEN ""
    ELSE IF Len(o) = 1 THEN "\"" \o o[1].k \o "\": " \o Dumps(o[1].v)
    ELSE "\"" \o o[1].k \o "\": " \o Dumps(o[1].v) \o ", " \o DumpPairs(Tail(o))

\* Types sqlite3 binds as a statement parameter: None, int (bool), str.
\* A list or a dict raises at execute.
Bindable(v) == v.t \in {"null", "bool", "num", "str"}

\* ------------------------------------------------------------ input files
\* An entry of the n8n-workflows directory.  kind "other": the name does not
\* match *-workflow.json; "bad": the name matches and load_workflow raises
\* (unreadable, or not JSON); "json": the name matches and json.load returns
\* val.
OtherFile == [kind |-> "other", val |-> JNull]
BadFile == [kind |-> "bad", val |-> JNull]
JsonFile(v) == [kind |-> "json", val |-> v]

\* {"name": "Test", "nodes": [], "connections": {}, "active": true}
TestWorkflow ==
    JObj(<<Item("name", JStr("Test")), Item("nodes", JArr(<<>>)),
           Item("connections", JObj(<<>>)), Item("active", JBool(TRUE))>>)

\* The files of the batch runs: a non-matching name, an unparsable file, a
\* JSON array, the empty object and a complete workflow.
BatchFiles ==
    {OtherFile, BadFile, JsonFile(JArr(<<>>)), JsonFile(JObj(<<>>)),
     JsonFile(TestWorkflow)}

\* The workflow objects of the single-file runs: every combination of each
\* recognised field being absent or holding one of a few values, with an
\* unrecognised field in front.
NameItems ==
    {<<>>, <<Item("name", JStr("Test"))>>, <<Item("name", JNull)>>,
     <<Item("name", JArr(<<JStr("x")>>))>>}
NodesItems ==
    {<<>>, <<Item("nodes", JArr(<<>>))>>,
     <<Item("nodes", JArr(<<JObj(<<Item("id", JNum(12))>>), JNull>>))>>}
ConnectionsItems ==
    {<<>>, <<Item("connections", JObj(<<>>))>>,
     <<Item("connections", JObj(<<Item("a", JArr(<<JNum(1), JBool(FALSE)>>))>>))>>}
ActiveItems ==
    {<<>>, <<Item("active", JBool(TRUE))>>, <<Item("active", JBool(FALSE))>>}
WorkflowObjects ==
    {JObj(<<Item("id", JNum(7))>> \o n \o d \o c \o a) :
        n \in NameItems, d \in NodesItems, c \in ConnectionsItems, a \in ActiveItems}

\* ------------------------------------------------------------------- state
VARIABLES
    dir,             \* the n8n-workflows directory: name -> entry
    dbExists,        \* os.path.exists(N8N_DB)
    dbSchema,        \* the database file holds the workflow table
    table,           \* the committed rows of the workflow table
    pc,              \* position of the program
    workflow_files,  \* main: the sorted list of matching names
    idx,             \* main: position of the for loop in workflow_files
    workflow_data,   \* main: the value load_workflow returned
    imported_count,  \* main: imported_count
    status,          \* the exit status, -1 while the process runs
    conn,            \* import_workflow_to_db: conn is an open connection
    pending,         \* the row inserted on conn and not yet committed
    leaked,          \* connections never closed and not yet finalised
    out,             \* the lines printed by this run
    clock,           \* datetime.now()
    run,             \* number of the current run of the importer
    faults,          \* environment faults so far
    existsChecks,    \* history: calls of os.path.exists(N8N_DB) in this run
    connects,        \* history: connections opened in this run
    loads,           \* history: calls of load_workflow in this run
    committed,       \* history: names of the files whose row this run committed
    failed,          \* history: names of the files whose insertion call returned False
    dbAtStart,       \* history: dbExists when this run started
    tableAtStart,    \* history: table when this run started
    dbRemoved,       \* history: the database file was removed
    hist             \* history: one record per completed earlier run

vars ==
    <<dir, dbExists, dbSchema, table, pc, workflow_files, idx, workflow_data,
      imported_count, status, conn, pending, leaked, out, clock, run, faults,
      existsChecks, connects, loads, committed, failed, dbAtStart, tableAtStart,
      dbRemoved, hist>>

envVars == <<dir, dbExists, dbSchema, table>>
mainVars == <<workflow_files, idx, workflow_data, imported_count, status>>
connVars == <<conn, pending, leaked>>
histVars == <<existsChecks, connects, loads, committed, failed>>
runVars == <<run, dbAtStart, tableAtStart, hist>>

\* A row of the workflow table.
Row(id, name, nodes, connections, active, createdAt, updatedAt) ==
    [id |-> id, name |-> name, nodes |-> nodes, connections |-> connections,
     active |-> active, createdAt |-> createdAt, updatedAt |-> updatedAt]
NoRow == Row(0, JNull, "", "", 0, 0, 0)
\* A workflow created in the n8n editor before the importer runs.
ExistingRow == Row(1, JStr("Existing"), "[]", "{}", 0, 0, 0)

\* A printed line: what it reports, the file and the number it mentions.
Line(tag, file, n, name) == [tag |-> tag, file |-> file, n |-> n, name |-> name]

\* The row id sqlite assigns to the next inserted row.
RECURSIVE MaxId(_)
MaxId(t) == IF t = <<>> THEN 0 ELSE
    LET m == MaxId(Tail(t)) IN IF Head(t).id > m THEN Head(t).id ELSE m
NextId(t) == MaxId(t) + 1

\* workflows_dir.glob('*-workflow.json'): the matching names, in any order.
Glob(d) == {n \in DOMAIN d : d[n].kind # "other"}

\* Mutation of Sorted: descending order.
RECURSIVE SortedDescending(_)
SortedDescending(S) ==
    IF S = {} THEN <<>>
    ELSE LET m == CHOOSE x \in S : \A y \in S : x >= y
         IN <<m>> \o SortedDescending(S \ {m})

\* sorted(...): ascending by name.
RECURSIVE Sorted(_)
Sorted(S) ==
    IF S = {} THEN <<>>
    ELSE LET m == CHOOSE x \in S : \A y \in S : x <= y
         IN <<m>> \o Sorted(S \ {m})

\* The outcomes the environment may give a call that can fail.
Fails == IF faults < MaxFaults THEN {FALSE, TRUE} ELSE {FALSE}

TypeOK ==
    /\ pc \in {"discover", "check", "load", "exists", "connect", "execute",
               "commit", "close", "report", "done", "killed"}
    /\ status \in {-1, 0, 1}
    /\ idx \in 0..(MaxFiles + 1)
    /\ imported_count \in 0..MaxFiles
    /\ run \in 1..MaxRuns
    /\ faults \in 0..MaxFaults
    /\ conn \in BOOLEAN
    /\ leaked \in Nat

\* ----------------------------------------------------------- initial state
InitProcess ==
    /\ pc = "discover"
    /\ workflow_files = <<>>
    /\ idx = 0
    /\ workflow_data = JNull
    /\ imported_count = 0
    /\ status = -1
    /\ conn = FALSE
    /\ pending = NoRow
    /\ leaked = 0
    /\ out = <<>>
    /\ clock = 1
    /\ run = 1
    /\ faults = 0
    /\ existsChecks = 0
    /\ connects = 0
    /\ loads = 0
    /\ committed = <<>>
    /\ failed = <<>>
    /\ dbRemoved = FALSE
    /\ hist = <<>>

InitDatabase ==
    /\ dbExists \in BOOLEAN
    /\ dbSchema = dbExists
    /\ table \in (IF dbExists THEN {<<>>, <<ExistingRow>>} ELSE {<<>>})
    /\ dbAtStart = dbExists
    /\ tableAtStart = table

\* A batch of up to MaxFiles files.
Init ==
    /\ dir \in [1..MaxFiles -> BatchFiles]
    /\ InitDatabase
    /\ InitProcess

\* A single workflow file.
InitRow ==
    /\ dir \in [{1} -> {JsonFile(w) : w \in WorkflowObjects}]
    /\ InitDatabase
    /\ InitProcess

\* ----------------------------------------------------------------- helpers
\* Mutation of NoFiles: the empty list is not detected.
NoFilesNever(files) == FALSE

\* "not workflow_files"
NoFiles(files) == files = <<>>

\* Mutation of DatabaseMissing: the check before the loop never aborts.
DatabaseMissingNever(exists) == FALSE

\* "not os.path.exists(N8N_DB)" in main
DatabaseMissing(exists) == ~exists

\* Mutation of DbNotFound: the insertion call does not check the file.
DbNotFoundNever(exists) == FALSE

\* "not os.path.exists(db_path)" in import_workflow_to_db
DbNotFound(exists) == ~exists

\* Mutation of BuildRow: a workflow without an active field is stored active.
BuildRowActiveDefault(data, id, now) ==
    Row(id,
        Get(data, "name", JStr("Untitled Workflow")),
        Dumps(Get(data, "nodes", JArr(<<>>))),
        Dumps(Get(data, "connections", JObj(<<>>))),
        IF Truthy(Get(data, "active", JBool(TRUE))) THEN 1 ELSE 0,
        now, now)

\* The parameters import_workflow_to_db binds to the INSERT statement, with
\* the row id the database assigns.
BuildRow(data, id, now) ==
    Row(id,
        Get(data, "name", JStr("Untitled Workflow")),
        Dumps(Get(data, "nodes", JArr(<<>>))),
        Dumps(Get(data, "connections", JObj(<<>>))),
        IF Truthy(Get(data, "active", JBool(FALSE))) THEN 1 ELSE 0,
        now, now)

\* The fields are read from workflow_data and bound without an exception.
Insertable(data) ==
    IsMapping(data) /\ Bindable(Get(data, "name", JStr("Untitled Workflow")))

\* Mutation of InsertRow: a row of the same name is replaced (an upsert).
InsertRowByName(t, row) ==
    IF \E i \in 1..Len(t) : t[i].name = row.name
    THEN [i \in 1..Len(t) |-> IF t[i].name = row.name THEN row ELSE t[i]]
    ELSE Append(t, row)

\* INSERT INTO workflow ...; conn.commit(): the row is appended.
InsertRow(t, row) == Append(t, row)

\* Mutation of RowsAfterFailure: the insert is committed as it executes, so
\* a failing commit leaves the row.
RowsAfterFailureAutocommit(t, row) == IF row.id # 0 THEN Append(t, row) ELSE t

\* The rows of the table once a connection is abandoned in the exception
\* handler: commit only follows execute, so an insert the connection holds was
\* not committed and is not in the table.
RowsAfterFailure(t, row) == t

\* Mutation of Tally: every file that loads is counted.
TallyAlways(count, ok) == count + 1

\* "if import_workflow_to_db(...): imported_count += 1"
Tally(count, ok) == IF ok THEN count + 1 ELSE count

\* Mutation of ReportStatus: a run that imported nothing fails.
ReportStatusStrict(count) == IF count = 0 THEN 1 ELSE 0

\* The value main returns after the final report.
ReportStatus(count) == 0

Emit(lines) == out' = out \o lines
Tick == clock' = clock + 1

\* import_workflow_to_db returns False after printing line; back in main the
\* loop goes on to the next file.
ReturnFalse(line) ==
    /\ Emit(line)
    /\ failed' = Append(failed, workflow_files[idx])
    /\ imported_count' = Tally(imported_count, FALSE)
    /\ idx' = idx + 1
    /\ pc' = "load"

\* ----------------------------------------------------------------- actions
\* main, up to the listing of the workflow files.
Discover ==
    /\ pc = "discover"
    /\ Tick
    /\ workflow_files' = Sorted(Glob(dir))
    /\ IF NoFiles(workflow_files')
       THEN /\ Emit(<<Line("Header", 0, 0, JNull), Line("NoFiles", 0, 0, JNull)>>)
            /\ status' = 1
            /\ pc' = "done"
       ELSE /\ Emit(<<Line("Header", 0, 0, JNull),
                       Line("Found", 0, Len(workflow_files'), JNull)>>)
            /\ status' = status
            /\ pc' = "check"
    /\ UNCHANGED <<envVars, idx, workflow_data, imported_count, connVars, run,
                   faults, histVars, dbAtStart, tableAtStart, dbRemoved, hist>>

\* main: the check of the database file before the loop.
CheckDatabase ==
    /\ pc = "check"
    /\ Tick
    /\ existsChecks' = existsChecks + 1
    /\ IF DatabaseMissing(dbExists)
       THEN /\ Emit(<<Line("NoDatabase", 0, 0, JNull), Line("Hint", 0, 0, JNull)>>)
            /\ status' = 1
            /\ pc' = "done"
            /\ UNCHANGED <<idx, imported_count>>
       ELSE /\ Emit(<<Line("Using", 0, 0, JNull)>>)
            /\ status' = status
            /\ imported_count' = 0
            /\ idx' = 1
            /\ pc' = "load"
    /\ UNCHANGED <<envVars, workflow_files, workflow_data, connVars, run, faults,
                   connects, loads, committed, failed, dbAtStart, tableAtStart,
                   dbRemoved, hist>>

\* main: the head of the for loop and load_workflow(workflow_file).
Load ==
    /\ pc = "load"
    /\ Tick
    /\ IF idx > Len(workflow_files)
       THEN /\ pc' = "report"
            /\ UNCHANGED <<out, idx, workflow_data, loads>>
       ELSE /\ loads' = loads + 1
            /\ IF dir[workflow_files[idx]].kind = "bad"
               THEN /\ Emit(<<Line("ErrProcess", workflow_files[idx], 0, JNull)>>)
                    /\ idx' = idx + 1
                    /\ pc' = "load"
                    /\ UNCHANGED workflow_data
               ELSE /\ workflow_data' = dir[workflow_files[idx]].val
                    /\ pc' = "exists"
                    /\ UNCHANGED <<out, idx>>
    /\ UNCHANGED <<envVars, workflow_files, imported_count, status, connVars, run,
                   faults, existsChecks, connects, committed, failed, dbAtStart,
                   tableAtStart, dbRemoved, hist>>

\* import_workflow_to_db: the check of the database file.
InsertExists ==
    /\ pc = "exists"
    /\ Tick
    /\ existsChecks' = existsChecks + 1
    /\ IF DbNotFound(dbExists)
       THEN ReturnFalse(<<Line("DbNotFound", workflow_files[idx], 0, JNull),
                          Line("Hint", 0, 0, JNull)>>)
       ELSE /\ pc' = "connect"
            /\ UNCHANGED <<out, failed, imported_count, idx>>
    /\ UNCHANGED <<envVars, workflow_files, workflow_data, status, connVars, run,
                   faults, connects, loads, committed, dbAtStart, tableAtStart,
                   dbRemoved, hist>>

\* import_workflow_to_db: sqlite3.connect(db_path) and conn.cursor().  A
\* connection to a path that does not exist creates an empty database file.
Connect ==
    /\ pc = "connect"
    /\ Tick
    /\ \E fail \in Fails :
        IF fail
        THEN /\ faults' = faults + 1
             /\ ReturnFalse(<<Line("ErrImport", workflow_files[idx], 0, JNull)>>)
             /\ UNCHANGED <<dbExists, dbSchema, conn, connects>>
        ELSE /\ conn' = TRUE
             /\ connects' = connects + 1
             /\ dbExists' = TRUE
             /\ dbSchema' = (dbExists /\ dbSchema)
             /\ pc' = "execute"
             /\ UNCHANGED <<out, failed, imported_count, idx, faults>>
    /\ UNCHANGED <<dir, table, workflow_files, workflow_data, status, pending,
                   leaked, run, existsChecks, loads, committed, dbAtStart,
                   tableAtStart, dbRemoved, hist>>

\* import_workflow_to_db: an exception after the connection was opened.  The
\* handler prints and returns False; conn is not closed, the insert it may
\* hold is never committed.
Except ==
    /\ ReturnFalse(<<Line("ErrImport", workflow_files[idx], 0, JNull)>>)
    /\ table' = RowsAfterFailure(table, pending)
    /\ conn' = FALSE
    /\ pending' = NoRow
    /\ leaked' = leaked + 1

\* import_workflow_to_db: the reading of the fields and cursor.execute.
Execute ==
    /\ pc = "execute"
    /\ Tick
    /\ IF ~Insertable(workflow_data) \/ ~dbSchema
       THEN /\ Except
            /\ UNCHANGED faults
       ELSE \E fail \in Fails :
            IF fail
            THEN /\ faults' = faults + 1
                 /\ Except
            ELSE /\ pending' = BuildRow(workflow_data, NextId(table), clock)
                 /\ pc' = "commit"
                 /\ UNCHANGED <<out, failed, imported_count, idx, conn, leaked,
                                faults, table>>
    /\ UNCHANGED <<dir, dbExists, dbSchema, workflow_files, workflow_data, status, run,
                   existsChecks, connects, loads, committed, dbAtStart,
                   tableAtStart, dbRemoved, hist>>

\* import_workflow_to_db: conn.commit().
Commit ==
    /\ pc = "commit"
    /\ Tick
    /\ \E fail \in Fails :
        IF fail
        THEN /\ faults' = faults + 1
             /\ Except
             /\ UNCHANGED committed
        ELSE /\ table' = InsertRow(table, pending)
             /\ committed' = Append(committed, workflow_files[idx])
             /\ pc' = "close"
             /\ UNCHANGED <<out, failed, imported_count, idx, connVars, faults>>
    /\ UNCHANGED <<dir, dbExists, dbSchema, workflow_files, workflow_data, status,
                   run, existsChecks, connects, loads, dbAtStart, tableAtStart,
                   dbRemoved, hist>>

\* import_workflow_to_db: the success line, conn.close() and return True;
\* main counts the file.
Close ==
    /\ pc = "close"
    /\ Tick
    /\ Emit(<<Line("Imported", workflow_files[idx], pending.id, pending.name)>>)
    /\ conn' = FALSE
    /\ pending' = NoRow
    /\ imported_count' = Tally(imported_count, TRUE)
    /\ idx' = idx + 1
    /\ pc' = "load"
    /\ UNCHANGED <<envVars, workflow_files, workflow_data, status, leaked, run,
                   faults, histVars, dbAtStart, tableAtStart, dbRemoved, hist>>

\* main: the final report and the return; the process exits.
Report ==
    /\ pc = "report"
    /\ Tick
    /\ Emit(<<Line("Complete", 0, imported_count, JNull),
               Line("NextSteps", 0, 0, JNull)>>)
    /\ status' = ReportStatus(imported_count)
    /\ leaked' = 0
    /\ pc' = "done"
    /\ UNCHANGED <<envVars, workflow_files, idx, workflow_data, imported_count,
                   conn, pending, run, faults, histVars, dbAtStart, tableAtStart,
                   dbRemoved, hist>>

\* The importer is started again on the same directory and database.
Rerun ==
    /\ pc = "done"
    /\ run < MaxRuns
    /\ run' = run + 1
    /\ hist' = Append(hist, [status |-> status, imported |-> imported_count,
                             files |-> workflow_files, start |-> tableAtStart,
                             end |-> table])
    /\ pc' = "discover"
    /\ workflow_files' = <<>>
    /\ idx' = 0
    /\ workflow_data' = JNull
    /\ imported_count' = 0
    /\ status' = -1
    /\ out' = <<>>
    /\ existsChecks' = 0
    /\ connects' = 0
    /\ loads' = 0
    /\ committed' = <<>>
    /\ failed' = <<>>
    /\ dbAtStart' = dbExists
    /\ tableAtStart' = table
    /\ UNCHANGED <<envVars, connVars, clock, faults, dbRemoved>>

\* Environment: the database file is removed while no statement is running.
RemoveDatabase ==
    /\ pc \in {"discover", "check", "load", "exists", "connect", "report"}
    /\ dbExists
    /\ faults < MaxFaults
    /\ faults' = faults + 1
    /\ dbExists' = FALSE
    /\ dbSchema' = FALSE
    /\ table' = <<>>
    /\ dbRemoved' = TRUE
    /\ UNCHANGED <<dir, pc, mainVars, connVars, out, clock, run, histVars,
                   dbAtStart, tableAtStart, hist>>

\* Environment: the interpreter finalises the connections that were never
\* closed (at the return of the call under reference counting, later or
\* never under another collector).
Finalize ==
    /\ pc \notin {"done", "killed"}
    /\ leaked > 0
    /\ leaked' = 0
    /\ UNCHANGED <<envVars, pc, mainVars, conn, pending, out, clock, run, faults,
                   histVars, dbAtStart, tableAtStart, dbRemoved, hist>>

\* Environment: the process is killed during the batch.  Its connections are
\* closed by the operating system, an uncommitted insert is rolled back.
Kill ==
    /\ pc \in {"load", "exists", "connect", "execute", "commit", "close"}
    /\ pc' = "killed"
    /\ conn' = FALSE
    /\ pending' = NoRow
    /\ leaked' = 0
    /\ UNCHANGED <<envVars, mainVars, out, clock, run, faults, histVars,
                   dbAtStart, tableAtStart, dbRemoved, hist>>

Next ==
    \/ Discover
    \/ CheckDatabase
    \/ Load
    \/ InsertExists
    \/ Connect
    \/ Execute
    \/ Commit
    \/ Close
    \/ Report
    \/ Rerun
    \/ RemoveDatabase
    \/ Finalize
    \/ Kill

Spec == Init /\ [][Next]_vars

SpecRow == InitRow /\ [][Next]_vars

\* ------------------------------------------------------------ observations
Range(q) == {q[i] : i \in 1..Len(q)}
IsPrefix(p, q) == Len(p) <= Len(q) /\ SubSeq(q, 1, Len(p)) = p
Count(q, tags) == Cardinality({i \in 1..Len(q) : q[i].tag \in tags})
Printed(tag) == \E i \in 1..Len(out) : out[i].tag = tag

\* The per-file error messages of the run.
ErrorMessages == Count(out, {"ErrProcess", "ErrImport", "DbNotFound"})
\* The discovered files, N, the well-formed ones, K, and the malformed ones.
Matching == {n \in DOMAIN dir : dir[n].kind # "other"}
WellFormed == {n \in DOMAIN dir : dir[n].kind = "json"}
Malformed == {n \in DOMAIN dir : dir[n].kind = "bad"}
\* The run passed the check before the loop and printed the final report.
Completed == pc = "done" /\ Printed("Using") /\ Printed("Complete")
\* The count the final report states.
ReportedCount == out[CHOOSE i \in 1..Len(out) : out[i].tag = "Complete"].n
\* Connections that are open.
OpenConnections == (IF conn THEN 1 ELSE 0) + leaked
InBatch == pc \in {"load", "exists", "connect", "execute", "commit", "close"}

\* ------------------------------------------------------------------ claims
\* C1 as stated: after a run over N files of which K are well-formed, with
\* the database present at the check, exactly K rows were inserted, N-K error
\* messages printed, the reported count is K and the exit status 0.
C1_AsStated ==
    (pc = "done" /\ Printed("Using")) =>
        /\ Len(committed) = Cardinality(WellFormed)
        /\ ErrorMessages = Cardinality(Matching) - Cardinality(WellFormed)
        /\ Printed("Complete")
        /\ ReportedCount = Cardinality(WellFormed)
        /\ status = 0

\* C1 amended: with F the number of well-formed files whose insertion call
\* returned False, a run that passed the database check inserted exactly K-F
\* rows, printed exactly N-K+F per-file error messages, reported the count
\* K-F and exited with status 0; the failed files are well-formed ones.
C1_BatchCounts ==
    (pc = "done" /\ Printed("Using")) =>
        /\ Range(failed) \subseteq WellFormed
        /\ Len(committed) = Cardinality(WellFormed) - Len(failed)
        /\ ErrorMessages = Cardinality(Malformed) + Len(failed)
        /\ Cardinality(Malformed) = Cardinality(Matching) - Cardinality(WellFormed)
        /\ Printed("Complete")
        /\ ReportedCount = Cardinality(WellFormed) - Len(failed)
        /\ imported_count = ReportedCount
        /\ status = 0
        /\ (~dbRemoved => Len(table) = Len(tableAtStart) + Len(committed))

C1_Witness ==
    /\ Completed
    /\ Cardinality(Matching) = 2
    /\ Cardinality(WellFormed) = 1
    /\ dir[1].kind = "bad"
    /\ committed = <<2>>
    /\ ErrorMessages = 1

\* C2: the exit status is 1 only after one of the two early aborts (no
\* matching file; database absent at the check before the loop), it is 0 in
\* every run that printed the final report, and it is not set while the
\* files are processed.
C2_ExitStatus ==
    /\ (status = 1 =>
            /\ pc = "done"
            /\ ~Printed("Complete")
            /\ \/ Printed("NoFiles") /\ Matching = {}
               \/ Printed("NoDatabase") /\ ~dbExists /\ Matching # {})
    /\ (Printed("Complete") => pc = "done" /\ status = 0)
    /\ (pc = "done" => status \in {0, 1})
    /\ (pc # "done" => status = -1)

C2_Witness ==
    /\ Completed
    /\ status = 0
    /\ imported_count = 0
    /\ Len(workflow_files) = 2
    /\ ErrorMessages = 2

\* C3: with no matching file the run exits with status 1 and never touches
\* the database: no existence check, no connection, no row.
C3_NoFilesNoDatabaseAccess ==
    Matching = {} =>
        /\ existsChecks = 0
        /\ connects = 0
        /\ loads = 0
        /\ committed = <<>>
        /\ ~conn
        /\ pc \in {"discover", "done"}
        /\ (pc = "done" => status = 1 /\ Printed("NoFiles"))

C3_Witness ==
    /\ Matching = {}
    /\ pc = "done"
    /\ status = 1
    /\ dbExists
    /\ table = <<ExistingRow>>

\* C4: with at least one matching file and the database file absent when the
\* run starts, the run exits with status 1 without loading a file, opening a
\* connection or inserting a row.
C4_DatabaseAbsent ==
    (Matching # {} /\ ~dbAtStart) =>
        /\ loads = 0
        /\ connects = 0
        /\ committed = <<>>
        /\ table = <<>>
        /\ ~dbExists
        /\ pc \in {"discover", "check", "done"}
        /\ (pc = "done" => status = 1 /\ Printed("NoDatabase"))

C4_Witness ==
    /\ Cardinality(Matching) = 2
    /\ ~dbAtStart
    /\ pc = "done"
    /\ status = 1
    /\ existsChecks = 1

\* The value the record holds for a field, looked up item by item.
Has(d, key) == \E i \in 1..Len(d.o) : d.o[i].k = key
Field(d, key) == d.o[CHOOSE i \in 1..Len(d.o) : d.o[i].k = key].v
\* The serialised text of the nodes and connections values of the single-file
\* runs, as json.dumps writes them.
NodesText(v) ==
    IF v = JArr(<<>>) THEN "[]"
    ELSE IF v = JArr(<<JObj(<<Item("id", JNum(12))>>), JNull>>)
         THEN "[{\"id\": 12}, null]"
         ELSE "?"
ConnectionsText(v) ==
    IF v = JObj(<<>>) THEN "{}"
    ELSE IF v = JObj(<<Item("a", JArr(<<JNum(1), JBool(FALSE)>>))>>)
         THEN "{\"a\": [1, false]}"
         ELSE "?"
\* The row the claim expects for a workflow record.
ExpectedFields(d, row) ==
    /\ row.name = (IF Has(d, "name") THEN Field(d, "name")
                   ELSE JStr("Untitled Workflow"))
    /\ row.nodes = (IF Has(d, "nodes") THEN NodesText(Field(d, "nodes")) ELSE "[]")
    /\ row.connections = (IF Has(d, "connections")
                          THEN ConnectionsText(Field(d, "connections")) ELSE "{}")
    /\ row.active = (IF Has(d, "active") /\ Field(d, "active") = JBool(TRUE)
                     THEN 1 ELSE 0)

\* C5: the row inserted for a workflow record holds, field by field, the
\* record's value when present and the default when absent: the name or
\* 'Untitled Workflow', the serialised nodes or "[]", the serialised
\* connections or "{}", active 1 when true and 0 when false or absent; the
\* committed row is that row.
C5_RowFields ==
    /\ (pc \in {"commit", "close"} => ExpectedFields(workflow_data, pending))
    /\ (pc = "close" => table[Len(table)] = pending /\ pending.createdAt = pending.updatedAt)

C5_Witness ==
    /\ pc = "close"
    /\ ~Has(workflow_data, "name")
    /\ ~Has(workflow_data, "active")
    /\ Has(workflow_data, "connections")
    /\ table[Len(table)].name = JStr("Untitled Workflow")
    /\ table[Len(table)].nodes = "[]"
    /\ table[Len(table)].connections = "{\"a\": [1, false]}"
    /\ table[Len(table)].active = 0

\* C6: a run that imports all N files after an earlier run did the same, on
\* the same database, adds N rows: the table holds the rows it held before
\* the earlier run, the N rows of the earlier run unchanged, and N new rows
\* with the same names and contents under new ids.
C6_Additive ==
    (/\ run > 1
     /\ Completed
     /\ ~dbRemoved
     /\ imported_count = Len(workflow_files)
     /\ hist[run - 1].status = 0
     /\ hist[run - 1].imported = Len(workflow_files)) =>
        LET N == Len(workflow_files)
            before == hist[run - 1].start
            first == hist[run - 1].end
        IN /\ Len(first) = Len(before) + N
           /\ Len(table) = Len(before) + 2 * N
           /\ IsPrefix(first, table)
           /\ \A i \in 1..N :
                LET old == table[Len(before) + i]
                    new == table[Len(before) + N + i]
                IN /\ new.name = old.name
                   /\ new.nodes = old.nodes
                   /\ new.connections = old.connections
                   /\ new.active = old.active
                   /\ new.id > old.id
           /\ \A i, j \in 1..Len(table) : i # j => table[i].id # table[j].id

C6_Witness ==
    /\ run = 2
    /\ Completed
    /\ ~dbRemoved
    /\ Len(workflow_files) = 2
    /\ imported_count = 2
    /\ hist[1].imported = 2
    /\ Len(table) = Len(hist[1].start) + 4

\* C7 as stated: the existence of the database file is tested once per run,
\* before the loop, and by no step of processing a file.
C7_AsStated == existsChecks <= 1

\* Insertion calls entered so far in this run: one per file that loaded.
InsertionCalls ==
    Len(failed) + imported_count
        + (IF pc \in {"connect", "execute", "commit", "close"} THEN 1 ELSE 0)

\* C7 amended: the file is tested once before the loop and once more at the
\* start of every insertion call (one per file that loaded); a call that
\* finds the file missing opens no connection, reports the file and returns
\* False, so the file is not counted.
C7_CheckedPerInsertion ==
    /\ []((InBatch \/ pc = "report" \/ Completed) =>
            existsChecks = 1 + InsertionCalls)
    /\ [][(pc = "exists" /\ ~dbExists /\ pc' \notin {"exists", "killed"}) =>
            /\ pc' = "load"
            /\ existsChecks' = existsChecks + 1
            /\ connects' = connects
            /\ conn' = FALSE
            /\ ~dbExists'
            /\ failed' = Append(failed, workflow_files[idx])
            /\ imported_count' = imported_count
            /\ out'[Len(out') - 1].tag = "DbNotFound"
            /\ idx' = idx + 1]_vars

C7_Witness ==
    /\ Completed
    /\ dbRemoved
    /\ committed = <<1>>
    /\ failed = <<2>>
    /\ existsChecks = 3
    /\ connects = 1
    /\ Printed("DbNotFound")

\* C8: a file whose insertion call returned False has no row in the table,
\* and the rows the run committed are exactly those of the counted files:
\* outside the step between commit and the count, the imported count is the
\* number of rows committed, the table grew by that many rows, and the final
\* report states that number.
C8_FailureLeavesNoRow ==
    /\ Range(failed) \cap Range(committed) = {}
    /\ (pc \notin {"close", "killed"} => Len(committed) = imported_count)
    /\ (pc \in {"close", "killed"} => Len(committed) \in {imported_count, imported_count + 1})
    /\ (~dbRemoved => Len(table) = Len(tableAtStart) + Len(committed))
    /\ (dbRemoved => Len(table) <= Len(committed))
    /\ (Completed => ReportedCount = Len(committed))

C8_Witness ==
    /\ Completed
    /\ ~dbRemoved
    /\ connects = 2
    /\ failed = <<1>>
    /\ committed = <<2>>
    /\ faults = 1
    /\ dir[1] = JsonFile(TestWorkflow)
    /\ Len(table) = Len(tableAtStart) + 1
    /\ ReportedCount = 1

\* C9 as stated: every connection is closed before its insertion call
\* returns, on every path: at most one connection is open at any time and
\* none is open when the next file begins or the final report is printed.
C9_AsStated ==
    /\ OpenConnections <= 1
    /\ (pc \in {"load", "report"} => OpenConnections = 0)

\* The names of q are in strictly ascending order.
Ascending(q) == \A i, j \in 1..Len(q) : i < j => q[i] < q[j]

\* C10: files are processed one at a time in ascending order of name; the
\* files with a committed row are among the files processed so far, in that
\* order, whenever the process is killed; and no step of the importer
\* removes or alters a committed row.
C10_CommittedRowsStay ==
    /\ [](/\ Ascending(workflow_files)
          /\ Range(workflow_files) = (IF pc = "discover" THEN {} ELSE Matching)
          /\ Ascending(committed)
          /\ Range(committed) \subseteq
                {workflow_files[i] : i \in 1..(IF idx <= Len(workflow_files)
                                               THEN idx ELSE Len(workflow_files))}
          /\ (pc \in {"load", "exists", "connect", "execute", "commit"} =>
                Range(committed) \subseteq {workflow_files[i] : i \in 1..(idx - 1)})
          /\ (~dbRemoved => Len(table) = Len(tableAtStart) + Len(committed)))
    /\ [][(dbExists' \/ ~dbExists) => IsPrefix(table, table')]_vars
    /\ [][run' = run => IsPrefix(committed, committed')]_vars

C10_Witness ==
    /\ pc = "killed"
    /\ Len(workflow_files) = 2
    /\ idx = 2
    /\ committed = <<1>>
    /\ ~dbRemoved
    /\ Len(table) = Len(tableAtStart) + 1

====
